---- MODULE Spec2Model ----
(***************************************************************************)
(* Model of src/src/core/utils.py: the two key extractors ReadPEMFile and  *)
(* ReadJWKFile.  An extractor holds a key slot (_signature) and an error   *)
(* list (_errors); assigning a path to the `signature` property runs the   *)
(* extraction, reading the property returns (key, tuple(errors)).          *)
(*                                                                         *)
(* The file system, the PEM parser (load_pem_private_key), the JSON        *)
(* parser (json.load) and the JWK constructor (jwk.construct) are outside  *)
(* the repository.  A file is described by what those primitives do with   *)
(* it: what open() answers on the path, what the PEM parser answers on    *)
(* the bytes, what JSON value the text holds, and what jwk.construct       *)
(* answers on the mapping taken from it.                                   *)
(***************************************************************************)
EXTENDS Integers, Sequences, FiniteSets, TLC

VARIABLES obj, ncalls, nreturned, last

vars == <<obj, ncalls, nreturned, last>>

\* Number of set_path calls made on one extractor instance.
MaxCalls == 3

(***************************************************************************)
(* Python values.                                                          *)
(***************************************************************************)
None == [kind |-> "None", src |-> "-"]

StrKey(s) == [kind |-> "str", v |-> s]

IntKey(s) == [kind |-> "int", v |-> s]

PyScalar(ty) == [ty |-> ty, items |-> <<>>, elems |-> <<>>]

PyNone == PyScalar("NoneType")

EmptyDict == [ty |-> "dict", items |-> <<>>, elems |-> <<>>]

\* isinstance(v, dict) / isinstance(v, list)
IsDict(v) == v.ty = "dict"

IsList(v) == v.ty = "list"

\* k in data, for a dict
DictContains(data, key) == key \in DOMAIN data.items

\* data.get(name)
DictGet(data, name) ==
    IF DictContains(data, StrKey(name)) THEN data.items[StrKey(name)] ELSE PyNone

\* data[key] on a dict: the value, or KeyError when the key is not in it
DictGetItem(data, key) ==
    IF DictContains(data, key)
    THEN [raised |-> "none", value |-> data.items[key]]
    ELSE [raised |-> "KeyError", value |-> PyNone]

(***************************************************************************)
(* JSON documents and json.load.                                           *)
(***************************************************************************)
JScalar(t) == [t |-> t, members |-> <<>>, elems |-> <<>>]

JObject(m) == [t |-> "object", members |-> m, elems |-> <<>>]

JArray(e) == [t |-> "array", members |-> <<>>, elems |-> e]

JStr == JScalar("string")

JInvalid == JScalar("invalid")

\* A document nested deeper than the parser's recursion limit.
JTooDeep == JScalar("toodeep")

PyType(t) ==
    CASE t = "object" -> "dict"
      [] t = "array"  -> "list"
      [] t = "string" -> "str"
      [] t = "number" -> "int"
      [] t = "true"   -> "bool"
      [] t = "null"   -> "NoneType"

RECURSIVE json_load(_)
json_load(j) ==
    [ty    |-> PyType(j.t),
     items |-> [k \in {StrKey(n) : n \in DOMAIN j.members} |-> json_load(j.members[k.v])],
     elems |-> [i \in 1..Len(j.elems) |-> json_load(j.elems[i])]]

(***************************************************************************)
(* The files the extractors are pointed at.                                *)
(***************************************************************************)
PrivateJWK == [kty |-> JStr, kid |-> JStr, alg |-> JStr, n |-> JStr, e |-> JStr, d |-> JStr]

PrivateJWKNoAlg == [kty |-> JStr, kid |-> JStr, n |-> JStr, e |-> JStr, d |-> JStr]

PublicJWK == [kty |-> JStr, kid |-> JStr, alg |-> JStr, n |-> JStr, e |-> JStr]

NoFile == [stat |-> "missing", pem |-> "malformed", text |-> "utf8",
           json |-> JInvalid, jose |-> "JOSEError"]

\* A path open() rejects: "notdir" has a regular file as a directory
\* component, "nul" has an embedded NUL character, "nonstr" is not a str,
\* bytes or os.PathLike object (None).
BadPath(stat) == [NoFile EXCEPT !.stat = stat]

PEMFile(answer) == [NoFile EXCEPT !.stat = "file", !.pem = answer]

JSONFile(doc, answer) == [NoFile EXCEPT !.stat = "file", !.json = doc, !.jose = answer]

Paths == {"missing", "denied", "dir", "binary",
          "rsa1.pem/x", "embedded-nul", "not-a-str",
          "rsa1.pem", "rsa2.pem", "encrypted.pem", "garbage.pem", "dsa.pem",
          "broken.json", "null.json", "array.json", "foo.json", "public.json",
          "private1.json", "private2.json", "badmaterial.json", "noalg.json", "deep.json",
          "keysstring.json", "publickeysnumber.json",
          "jwks.json", "jwksempty.json", "jwkszero.json"}

FS(path) ==
    CASE path = "missing"       -> NoFile
      [] path = "denied"        -> [NoFile EXCEPT !.stat = "denied"]
      [] path = "dir"           -> [NoFile EXCEPT !.stat = "dir"]
      [] path = "binary"        -> [NoFile EXCEPT !.stat = "file", !.text = "binary"]
      [] path = "rsa1.pem/x"    -> BadPath("notdir")
      [] path = "embedded-nul"  -> BadPath("nul")
      [] path = "not-a-str"     -> BadPath("nonstr")
      [] path = "rsa1.pem"      -> PEMFile("key")
      [] path = "rsa2.pem"      -> PEMFile("key")
      [] path = "encrypted.pem" -> PEMFile("encrypted")
      [] path = "garbage.pem"   -> PEMFile("malformed")
      [] path = "dsa.pem"       -> PEMFile("unsupported")
      [] path = "broken.json"   -> JSONFile(JInvalid, "JOSEError")
      [] path = "null.json"     -> JSONFile(JScalar("null"), "JOSEError")
      [] path = "array.json"    -> JSONFile(JArray(<<JObject(PrivateJWK)>>), "accept")
      [] path = "foo.json"      -> JSONFile(JObject([foo |-> JStr]), "JOSEError")
      [] path = "public.json"   -> JSONFile(JObject(PublicJWK), "accept")
      [] path = "private1.json" -> JSONFile(JObject(PrivateJWK), "accept")
      [] path = "private2.json" -> JSONFile(JObject(PrivateJWK), "accept")
      [] path = "badmaterial.json" -> JSONFile(JObject(PrivateJWK), "JOSEError")
      [] path = "noalg.json"    -> JSONFile(JObject(PrivateJWKNoAlg), "JOSEError")
      [] path = "deep.json"     -> JSONFile(JTooDeep, "JOSEError")
      [] path = "keysstring.json" ->
             JSONFile(JObject(PrivateJWK @@ [keys |-> JStr]), "accept")
      [] path = "publickeysnumber.json" ->
             JSONFile(JObject(PublicJWK @@ [keys |-> JScalar("number")]), "accept")
      [] path = "jwks.json" ->
             JSONFile(JObject([keys |-> JArray(<<JObject(PrivateJWK)>>)]), "accept")
      [] path = "jwksempty.json" ->
             JSONFile(JObject([keys |-> JArray(<<>>)]), "JOSEError")
      [] path = "jwkszero.json" ->
             JSONFile(JObject([keys |-> JArray(<<JObject(PrivateJWK)>>)]
                              @@ ("0" :> JObject(PrivateJWK))), "accept")

(***************************************************************************)
(* Exceptions: the class hierarchy the except clauses test against, and    *)
(* the clause lists of the two setters in source order.                    *)
(***************************************************************************)
ExcParent(exc) ==
    CASE exc = "FileNotFoundError"    -> "OSError"
      [] exc = "PermissionError"      -> "OSError"
      [] exc = "IsADirectoryError"    -> "OSError"
      [] exc = "NotADirectoryError"   -> "OSError"
      [] exc = "OSError"              -> "Exception"
      [] exc = "UnicodeDecodeError"   -> "ValueError"
      [] exc = "JSONDecodeError"      -> "ValueError"
      [] exc = "ValueError"           -> "Exception"
      [] exc = "TypeError"            -> "Exception"
      [] exc = "KeyError"             -> "Exception"
      [] exc = "UnsupportedAlgorithm" -> "Exception"
      [] exc = "JOSEError"            -> "Exception"
      [] exc = "RecursionError"       -> "RuntimeError"
      [] exc = "RuntimeError"         -> "Exception"
      [] exc = "MemoryError"          -> "Exception"
      [] exc = "Exception"            -> "BaseException"
      [] exc = "KeyboardInterrupt"    -> "BaseException"
      [] exc = "BaseException"        -> "object"

RECURSIVE IsInstance(_, _)
IsInstance(exc, cls) ==
    IF exc = cls THEN TRUE
    ELSE IF exc = "object" THEN FALSE
    ELSE IsInstance(ExcParent(exc), cls)

\* KeyValidationError(message): the code, the message text and, for the
\* catch-all, the exception whose text is embedded in the message.
KeyValidationError(code, msg, detail) == [code |-> code, msg |-> msg, detail |-> detail]

PEMClausesCatchAllFirst ==
    << [cls |-> "Exception",         code |-> "E004", msg |-> "Unexpected:"],
       [cls |-> "FileNotFoundError", code |-> "E001", msg |-> "PEM file not found in path."],
       [cls |-> "TypeError",         code |-> "E002", msg |-> "Bad PEM key file."],
       [cls |-> "ValueError",        code |-> "E003", msg |-> "Bad PEM key signature."] >>

PEMClauses ==
    << [cls |-> "FileNotFoundError", code |-> "E001", msg |-> "PEM file not found in path."],
       [cls |-> "TypeError",         code |-> "E002", msg |-> "Bad PEM key file."],
       [cls |-> "ValueError",        code |-> "E003", msg |-> "Bad PEM key signature."],
       [cls |-> "Exception",         code |-> "E004", msg |-> "Unexpected:"] >>

JWKClauses ==
    << [cls |-> "FileNotFoundError", code |-> "E005", msg |-> "JWK file not found in path."],
       [cls |-> "JSONDecodeError",   code |-> "E006", msg |-> "Bad JWK key file."],
       [cls |-> "Exception",         code |-> "E004", msg |-> "Unexpected:"] >>

\* The first except clause that matches the exception, 0 when none does.
FirstMatch(clauses, exc) ==
    LET hits == {i \in 1..Len(clauses) : IsInstance(exc, clauses[i].cls)}
    IN  IF hits = {} THEN 0 ELSE CHOOSE i \in hits : \A j \in hits : i <= j

\* The error the matching clause appends.
HandlerError(clauses, exc) ==
    LET c == clauses[FirstMatch(clauses, exc)]
    IN  KeyValidationError(c.code, c.msg, IF c.code = "E004" THEN exc ELSE "-")

ErrorsReplace(errors, error) == <<error>>

\* self._errors.append(error)
ErrorsAppend(errors, error) == Append(errors, error)

(***************************************************************************)
(* External primitives, by what they answer on a file.                     *)
(***************************************************************************)
\* open(path, mode)
Open(path) ==
    CASE FS(path).stat = "missing" -> "FileNotFoundError"
      [] FS(path).stat = "denied"  -> "PermissionError"
      [] FS(path).stat = "dir"     -> "IsADirectoryError"
      [] FS(path).stat = "notdir"  -> "NotADirectoryError"
      [] FS(path).stat = "nul"     -> "ValueError"
      [] FS(path).stat = "nonstr"  -> "TypeError"
      [] OTHER                     -> "none"

\* serialization.load_pem_private_key(f.read(), password=None)
load_pem_private_key(path) ==
    CASE FS(path).pem = "key"         ->
            [raised |-> "none", value |-> [kind |-> "RSAPrivateKey", src |-> path]]
      [] FS(path).pem = "encrypted"   -> [raised |-> "TypeError", value |-> None]
      [] FS(path).pem = "unsupported" -> [raised |-> "UnsupportedAlgorithm", value |-> None]
      [] OTHER                        -> [raised |-> "ValueError", value |-> None]

\* json.load(f) on a file opened in text mode
JsonLoadFile(path) ==
    IF FS(path).text = "binary" THEN [raised |-> "UnicodeDecodeError", value |-> PyNone]
    ELSE IF FS(path).json.t = "invalid" THEN [raised |-> "JSONDecodeError", value |-> PyNone]
    ELSE IF FS(path).json.t = "toodeep" THEN [raised |-> "RecursionError", value |-> PyNone]
    ELSE [raised |-> "none", value |-> json_load(FS(path).json)]

\* jwk.construct(data), for the mapping taken from the file at path
jwk_construct(path) ==
    IF FS(path).jose = "accept"
    THEN [raised |-> "none", value |-> [kind |-> "JWKKey", src |-> path]]
    ELSE [raised |-> FS(path).jose, value |-> None]

(***************************************************************************)
(* ReadPEMFile                                                             *)
(***************************************************************************)
\* with open(path, "rb") as f: data = load_pem_private_key(f.read(), ...)
PEMRead(path) ==
    IF Open(path) # "none" THEN [raised |-> Open(path), value |-> None]
    ELSE load_pem_private_key(path)

PEMFinallyUnguarded(signature, errors, data) == data

\* finally: if not self._errors: self._signature = data
PEMFinally(signature, errors, data) ==
    IF errors = <<>> THEN data ELSE signature

\* The setter: the instance after the call, the exception that left it and
\* the exception raised in the try body.
PEMSetter(self, path) ==
    LET r       == PEMRead(path)
        caught  == r.raised # "none" /\ FirstMatch(PEMClauses, r.raised) # 0
        data    == IF r.raised = "none" THEN r.value ELSE None
        errors1 == IF caught
                   THEN ErrorsAppend(self.errors, HandlerError(PEMClauses, r.raised))
                   ELSE self.errors
    IN  [self        |-> [self EXCEPT !.signature = PEMFinally(self.signature, errors1, data),
                                      !.errors = errors1],
         raised      |-> IF caught THEN "none" ELSE r.raised,
         exc         |-> r.raised,
         constructed |-> FALSE]

(***************************************************************************)
(* ReadJWKFile                                                             *)
(***************************************************************************)
\* with open(path, "r") as f: data = json.load(f)
JWKRead(path) ==
    IF Open(path) # "none" THEN [raised |-> Open(path), value |-> PyNone]
    ELSE JsonLoadFile(path)

RequiredFields == <<"kty", "kid", "n", "e", "d">>

RequiredFieldGateAny(data, errors) ==
    /\ \E i \in 1..Len(RequiredFields) : DictContains(data, StrKey(RequiredFields[i]))
    /\ errors = <<>>

\* all(k in data for k in [...]) and not self._errors
RequiredFieldGate(data, errors) ==
    /\ \A i \in 1..Len(RequiredFields) : DictContains(data, StrKey(RequiredFields[i]))
    /\ errors = <<>>

\* data = data[0] if isinstance(data[0], dict) else {}
FirstOfSet(data) ==
    LET item == DictGetItem(data, IntKey("0"))
    IN  IF item.raised # "none" THEN item
        ELSE [raised |-> "none", value |-> IF IsDict(item.value) THEN item.value ELSE EmptyDict]

\* The setter: the instance after the call, the exception that left it and
\* whether jwk.construct was called.
JWKSetter(self, path) ==
    LET r       == JWKRead(path)
        errors1 == IF r.raised # "none" /\ FirstMatch(JWKClauses, r.raised) # 0
                   THEN ErrorsAppend(self.errors, HandlerError(JWKClauses, r.raised))
                   ELSE self.errors
        data1   == IF r.raised = "none" THEN r.value ELSE PyNone
        data2   == IF IsDict(data1) THEN data1 ELSE EmptyDict
        errors2 == IF IsDict(data1) THEN errors1
                   ELSE ErrorsAppend(errors1,
                            KeyValidationError("E007", "Bad JWK key signature.", "-"))
        isSet   == IsList(DictGet(data2, "keys"))
        first   == IF isSet THEN FirstOfSet(data2) ELSE [raised |-> "none", value |-> data2]
        data3   == first.value
        built   == jwk_construct(path)
    IN  IF r.raised # "none" /\ FirstMatch(JWKClauses, r.raised) = 0
        THEN [self |-> self, raised |-> r.raised, exc |-> r.raised, constructed |-> FALSE]
        ELSE IF first.raised # "none"
        THEN [self        |-> [self EXCEPT !.errors = errors2],
              raised      |-> first.raised,
              exc         |-> r.raised,
              constructed |-> FALSE]
        ELSE IF ~RequiredFieldGate(data3, errors2)
        THEN [self        |-> [self EXCEPT !.errors = errors2],
              raised      |-> "none",
              exc         |-> r.raised,
              constructed |-> FALSE]
        ELSE IF built.raised = "none"
        THEN [self        |-> [self EXCEPT !.signature = built.value, !.errors = errors2],
              raised      |-> "none",
              exc         |-> r.raised,
              constructed |-> TRUE]
        ELSE IF IsInstance(built.raised, "JOSEError")
        THEN [self        |-> [self EXCEPT !.errors =
                                  ErrorsAppend(errors2,
                                      KeyValidationError("E007", "Bad JWK key signature.", "-"))],
              raised      |-> "none",
              exc         |-> r.raised,
              constructed |-> TRUE]
        ELSE [self        |-> [self EXCEPT !.errors = errors2],
              raised      |-> built.raised,
              exc         |-> r.raised,
              constructed |-> TRUE]

\* The getter of both classes: (self._signature, tuple(self._errors))
signature(self) == <<self.signature, self.errors>>

(***************************************************************************)
(* The state machine: one extractor instance at a time, constructed and    *)
(* then given paths.                                                       *)
(***************************************************************************)
NewInstance(cls) == [cls |-> cls, signature |-> None, errors |-> <<>>]

NoCall == [path |-> "-", raised |-> "none", exc |-> "none", constructed |-> FALSE]

Init ==
    /\ obj \in {NewInstance("ReadPEMFile"), NewInstance("ReadJWKFile")}
    /\ ncalls = 0
    /\ nreturned = 0
    /\ last = NoCall

\* ReadPEMFile()
PEMInit ==
    /\ obj' = NewInstance("ReadPEMFile")
    /\ ncalls' = 0
    /\ nreturned' = 0
    /\ last' = NoCall

\* ReadJWKFile()
JWKInit ==
    /\ obj' = NewInstance("ReadJWKFile")
    /\ ncalls' = 0
    /\ nreturned' = 0
    /\ last' = NoCall

Called(out, path) ==
    /\ obj' = out.self
    /\ ncalls' = ncalls + 1
    /\ nreturned' = IF out.raised = "none" THEN nreturned + 1 ELSE nreturned
    /\ last' = [path |-> path, raised |-> out.raised, exc |-> out.exc,
                constructed |-> out.constructed]

\* pem.signature = path
PEMSetPath ==
    /\ obj.cls = "ReadPEMFile"
    /\ ncalls < MaxCalls
    /\ \E path \in Paths : Called(PEMSetter(obj, path), path)

\* jwk.signature = path
JWKSetPath ==
    /\ obj.cls = "ReadJWKFile"
    /\ ncalls < MaxCalls
    /\ \E path \in Paths : Called(JWKSetter(obj, path), path)

Next == PEMInit \/ JWKInit \/ PEMSetPath \/ JWKSetPath

Spec == Init /\ [][Next]_vars

(***************************************************************************)
(* Vocabulary of the properties.                                           *)
(***************************************************************************)
IsPrefix(s, t) == Len(s) <= Len(t) /\ SubSeq(t, 1, Len(s)) = s

\* The state right after the first set_path call on a new instance.
FirstCallDone == ncalls = 1

\* The step is a set_path call.
SetPathStep == ncalls' = ncalls + 1

\* The file holds a JSON object.
HoldsObject(path) ==
    /\ FS(path).stat = "file"
    /\ FS(path).text = "utf8"
    /\ FS(path).json.t = "object"

\* The JSON object has a `keys` member that is an array.
HasKeysArray(path) ==
    /\ "keys" \in DOMAIN FS(path).json.members
    /\ FS(path).json.members["keys"].t = "array"

HasAllRequired(members) == \A i \in 1..Len(RequiredFields) : RequiredFields[i] \in DOMAIN members

\* A bare JWK (no `keys` array) that lacks one of kty, kid, n, e, d.
BareJWKMissingField(path) ==
    /\ HoldsObject(path)
    /\ ~HasKeysArray(path)
    /\ ~HasAllRequired(FS(path).json.members)

\* A JWK set whose first key object has all of kty, kid, n, e, d and is
\* accepted by jwk.construct.
AcceptableJWKSet(path) ==
    /\ HoldsObject(path)
    /\ HasKeysArray(path)
    /\ Len(FS(path).json.members["keys"].elems) >= 1
    /\ FS(path).json.members["keys"].elems[1].t = "object"
    /\ HasAllRequired(FS(path).json.members["keys"].elems[1].members)
    /\ FS(path).jose = "accept"

\* The path names something that exists.
PathExists(path) == FS(path).stat \in {"file", "dir", "denied"}

\* The read or the parse of the PEM setter fails on this path.
PEMFails(path) == FS(path).stat # "file" \/ FS(path).pem # "key"

\* The code the PEM error table gives that failure, by its condition.
PEMExpectedCode(path) ==
    IF ~PathExists(path) THEN "E001"
    ELSE IF FS(path).stat = "file" /\ FS(path).pem = "encrypted" THEN "E002"
    ELSE IF FS(path).stat = "file" /\ FS(path).pem = "malformed" THEN "E003"
    ELSE "E004"

\* The code the PEM error table gives an exception, by its class.
PEMCodeOfClass(exc) ==
    IF IsInstance(exc, "FileNotFoundError") THEN "E001"
    ELSE IF IsInstance(exc, "TypeError") THEN "E002"
    ELSE IF IsInstance(exc, "ValueError") THEN "E003"
    ELSE "E004"

\* C1: for both extractors and every file, a set_path call never lets an
\* exception propagate to the caller.
C1_NeverRaises == last.raised = "none"

\* C2: whenever the error list returned by get_result is non-empty, the key
\* returned by get_result is None, after any sequence of set_path calls.
C2_ErrorsImplyNoKey == signature(obj)[2] # <<>> => signature(obj)[1] = None

\* C3: once set_path has returned at least once, whenever the error list
\* returned by get_result is empty the key returned by get_result is not None.
C3_NoErrorsImplyKey ==
    (nreturned >= 1 /\ signature(obj)[2] = <<>>) => signature(obj)[1] # None

\* C4: on a new extractor, one set_path call with a path that does not exist
\* leaves the key None and the error list with exactly one error, E001 for
\* the PEM extractor and E005 for the JWK extractor.
C4_MissingPathOneError ==
    (FirstCallDone /\ FS(last.path).stat = "missing") =>
        /\ last.raised = "none"
        /\ signature(obj)[1] = None
        /\ Len(signature(obj)[2]) = 1
        /\ signature(obj)[2][1].code =
               (IF obj.cls = "ReadPEMFile" THEN "E001" ELSE "E005")

\* C5: on a new JWK extractor, set_path on a JWK set whose first key object
\* has all of kty, kid, n, e, d and is accepted by jwk.construct yields a key
\* and an empty error list.
C5_JWKSetYieldsKey ==
    (obj.cls = "ReadJWKFile" /\ FirstCallDone /\ AcceptableJWKSet(last.path)) =>
        /\ last.raised = "none"
        /\ signature(obj)[1] # None
        /\ signature(obj)[2] = <<>>

\* C6: on a new JWK extractor, set_path on a bare JWK object that lacks one
\* of kty, kid, n, e, d leaves the key None and the error list empty, and
\* jwk.construct is not called.
C6_MissingFieldSilent ==
    (obj.cls = "ReadJWKFile" /\ FirstCallDone /\ BareJWKMissingField(last.path)) =>
        /\ last.raised = "none"
        /\ signature(obj) = <<None, <<>>>>
        /\ ~last.constructed

C6_Witness ==
    /\ obj.cls = "ReadJWKFile"
    /\ FirstCallDone
    /\ BareJWKMissingField(last.path)
    /\ DOMAIN FS(last.path).json.members \cap {"kty", "kid", "n", "e", "d"} # {}
    /\ signature(obj) = <<None, <<>>>>

\* C7: on a new JWK extractor, set_path on the file {"foo": "bar"} yields
\* (None, [E007 "Bad JWK key signature."]).
C7_FooBarIsE007 ==
    (obj.cls = "ReadJWKFile" /\ FirstCallDone /\ last.path = "foo.json") =>
        signature(obj) =
            <<None, <<KeyValidationError("E007", "Bad JWK key signature.", "-")>> >>

C9_ErrorsAppendOnly ==
    [][SetPathStep => IsPrefix(obj.errors, obj'.errors)]_vars

C9_Witness ==
    /\ ncalls = 3
    /\ Len(obj.errors) >= 3
    /\ obj.errors[1].code # obj.errors[Len(obj.errors)].code

\* C10: once the error list of an instance is non-empty, no later set_path
\* call changes the key slot, also not a call on a file that a new instance
\* would accept.
C10_ErrorsFreezeKey ==
    [][(SetPathStep /\ obj.errors # <<>>) => obj'.signature = obj.signature]_vars

C10_Witness ==
    /\ ncalls >= 2
    /\ obj.errors # <<>>
    /\ last.raised = "none"
    /\ \/ obj.cls = "ReadPEMFile" /\ FS(last.path).stat = "file" /\ FS(last.path).pem = "key"
       \/ obj.cls = "ReadJWKFile" /\ last.path = "private1.json"
    /\ obj.signature.src # last.path

====
